---- MODULE Spec2Model ----
(***************************************************************************)
(* A model of the samlidp administrative server: the abstract key-value    *)
(* Store, the service-provider registry (Server.serviceProviders) guarded  *)
(* by Server.idpConfigMu, and the request handlers for services, users and *)
(* shortcuts together with the IDP-initiated login dispatch.               *)
(*                                                                         *)
(* Every inbound request is served by one worker (one goroutine per        *)
(* request).  A handler is split into steps at its Store calls and at its  *)
(* lock operations, which are the points where other requests interleave.  *)
(***************************************************************************)
EXTENDS Integers, Sequences, FiniteSets, TLC

(***************************************************************************)
(* Bounds of the model.                                                    *)
(***************************************************************************)
MaxServiceIDs == 1       \* :id values used under /services/
MaxUserIDs == 1          \* :id values used under /users/
MaxSalts == 1            \* distinct salts bcrypt may draw
MaxStoredServices == 2   \* services in the Store when the process starts

\* Two requests are served concurrently.
Workers == {1, 2}
ServiceIDs == 1..MaxServiceIDs
UserIDs == 1..MaxUserIDs
Salts == 1..MaxSalts
StoredServiceIDs == 1..MaxStoredServices
ShortcutIDs == {"promo"}
EntityIDs == {"https://sp.example/meta", "https://other.example/meta"}
\* The rest of a metadata document, apart from its EntityID.
Docs == {"v1", "v2"}
Passwords == {"pw1", "pw2"}
\* The trailing path segment of /login/:shortcut/:state ("" when absent).
PathStates == {"campaign42", ""}

(***************************************************************************)
(* Optional values (Go pointers and "present or not" results) are          *)
(* sequences of length at most one.                                        *)
(***************************************************************************)
None == <<>>
Some(x) == <<x>>

(***************************************************************************)
(* HTTP responses.  A handler that never calls WriteHeader answers 200.    *)
(***************************************************************************)
StatusOK == 200
StatusNoContent == 204
StatusBadRequest == 400
StatusInternalServerError == 500

NoResponse == [status |-> 0, body |-> None]
Response(status, body) == [status |-> status, body |-> body]
\* http.Error(w, http.StatusText(code), code)
HttpError(code) == Response(code, None)

(***************************************************************************)
(* Errors returned by the Store.                                           *)
(***************************************************************************)
ErrNil == "nil"
ErrNotFound == "not found"
ErrBackend == "backend failure"

VARIABLES
    store,              \* Server.Store: key -> stored value (present keys only)
    deleteIdempotent,   \* the backend's fixed choice for Delete on an absent key
    serviceProviders,   \* Server.serviceProviders: EntityID -> *EntityDescriptor
    idpConfigMu,        \* Server.idpConfigMu: the writer inside and the readers inside
    workers,            \* one record per request being served
    startup,            \* New: where initializeServices stands and what New returned
    passwordHash,       \* history: user id -> the hash the last PUT with a password stored
    shortcutBody        \* history: shortcut id -> the body of the last PUT stored

vars == <<store, deleteIdempotent, serviceProviders, idpConfigMu, workers, startup,
          passwordHash, shortcutBody>>
history == <<passwordHash, shortcutBody>>

(***************************************************************************)
(* The abstract Store.  A call may fail with a backend error on any key;   *)
(* a failed call leaves the store as it was.                               *)
(***************************************************************************)
Key(kind, id) == <<kind, id>>

\* Store.Get: the error and the value unmarshalled into the caller's struct.
StoreGet(key, fails) ==
    IF fails THEN [err |-> ErrBackend, value |-> None]
    ELSE IF key \in DOMAIN store THEN [err |-> ErrNil, value |-> Some(store[key])]
    ELSE [err |-> ErrNotFound, value |-> None]

\* Store.Put: upsert.
StorePut(key, value, fails) ==
    IF fails THEN [err |-> ErrBackend, store |-> store]
    ELSE [err |-> ErrNil,
          store |-> [k \in DOMAIN store \cup {key} |-> IF k = key THEN value ELSE store[k]]]

\* Store.Delete: on an absent key the backend either reports ErrNotFound or,
\* when it is idempotent, succeeds.
StoreDelete(key, fails) ==
    IF fails THEN [err |-> ErrBackend, store |-> store]
    ELSE IF key \in DOMAIN store
         THEN [err |-> ErrNil, store |-> [k \in DOMAIN store \ {key} |-> store[k]]]
    ELSE IF deleteIdempotent THEN [err |-> ErrNil, store |-> store]
    ELSE [err |-> ErrNotFound, store |-> store]

\* Store.List: the ids stored under a resource kind.
StoreList(kind, fails) ==
    IF fails THEN [err |-> ErrBackend, names |-> {}]
    ELSE [err |-> ErrNil, names |-> {k[2] : k \in {x \in DOMAIN store : x[1] = kind}}]

(***************************************************************************)
(* Workers.                                                                *)
(***************************************************************************)
\* pc, the request (kind, id, state, body), the handler's local struct, the
\* response written, the hand-off made to the protocol engine, the descriptor
\* the engine's lookup found, and history:
\* quiet (for a Service PUT: no other request wrote Service state since this
\* one began; for a Service DELETE: no Service PUT did), wrote
\* (this request's Store write returned nil), mutated (this request changed
\* the registry).
Idle == [pc |-> "idle", kind |-> "none", id |-> None, state |-> None, body |-> None,
         local |-> None, resp |-> NoResponse, handoff |-> None, found |-> None,
         quiet |-> TRUE, wrote |-> FALSE, mutated |-> FALSE]

\* A worker before InitializeHTTP has installed the routes: no request reaches
\* a handler.
Unrouted == [Idle EXCEPT !.pc = "unrouted"]

\* ctx.Param("id"): the path segment that spells a numbered id.
Param(id) == ToString(id)

\* The first step of a request: the worker leaves Idle with the request's
\* kind, path parameter and body.
Begin(kind, id, body) == [Idle EXCEPT !.kind = kind, !.id = Some(id), !.body = body]

\* The handler returns with a response.
Reply(rec, resp) == [rec EXCEPT !.pc = "done", !.resp = resp]

\* A step of worker w that leaves the other workers alone.
Only(w, rec) == [workers EXCEPT ![w] = rec]

\* A step of worker w that writes Service state (Store or registry): every
\* other Service PUT in flight or answered is no longer undisturbed, and
\* neither is another Service DELETE when the step is a PUT's.
Disturbing(w, rec) ==
    [v \in Workers |->
        IF v = w THEN rec
        ELSE IF \/ workers[v].kind = "PutService"
                \/ workers[v].kind = "DeleteService" /\ rec.kind = "PutService"
             THEN [workers[v] EXCEPT !.quiet = FALSE]
        ELSE workers[v]]

(***************************************************************************)
(* The Registry lock, a sync.RWMutex.  writer is the goroutine inside the  *)
(* exclusive lock, pending the goroutine whose Lock call has announced     *)
(* itself and waits for the readers inside to leave, readers the number of *)
(* shared acquisitions each goroutine holds.                               *)
(***************************************************************************)
\* The goroutine that calls New, numbered after the request workers.
Main == Cardinality(Workers) + 1

Unlocked == [writer |-> 0, pending |-> 0, readers |-> [w \in Workers |-> 0]]
NoReaders == \A w \in Workers : idpConfigMu.readers[w] = 0

\* Lock gets past the writers' inner mutex once no other writer is inside or
\* pending.
CanLock == idpConfigMu.writer = 0 /\ idpConfigMu.pending = 0
\* RLock returns once no writer is inside or pending: a writer waiting in
\* Lock blocks later shared acquisitions.
CanRLock == idpConfigMu.writer = 0 /\ idpConfigMu.pending = 0

\* Lock letting w inside whatever readers are inside.
Lock_Barging(w) == [idpConfigMu EXCEPT !.writer = w]

\* Lock called by w: it is inside at once when no reader is, else it is
\* pending until the last reader leaves.
Lock(w) ==
    IF NoReaders THEN [idpConfigMu EXCEPT !.writer = w]
    ELSE [idpConfigMu EXCEPT !.pending = w]
Unlock(w) == [idpConfigMu EXCEPT !.writer = 0]
RLock(w) == [idpConfigMu EXCEPT !.readers[w] = @ + 1]
\* n RUnlocks by w; the last reader to leave lets the pending writer in.
RUnlockTimes(w, n) ==
    LET left == [idpConfigMu EXCEPT !.readers[w] = @ - n]
    IN IF left.pending # 0 /\ \A v \in Workers : left.readers[v] = 0
       THEN [left EXCEPT !.writer = left.pending, !.pending = 0]
       ELSE left
RUnlock(w) == RUnlockTimes(w, 1)
\* w's Lock call has returned.
Locked(w) == idpConfigMu.writer = w

(***************************************************************************)
(* Services.                                                               *)
(***************************************************************************)
\* saml.EntityDescriptor, reduced to its EntityID and the rest of the document.
EntityDescriptor(e, d) == [EntityID |-> e, Doc |-> d]
Descriptors == {EntityDescriptor(e, d) : e \in EntityIDs, d \in Docs}

\* The XML document of a descriptor, as sent in a request body and as written
\* by xml.NewEncoder(...).Encode.
XmlEncode(md) == [xml |-> "EntityDescriptor", entityID |-> md.EntityID, rest |-> md.Doc]
Malformed == [xml |-> "malformed"]
ServiceBodies == {XmlEncode(md) : md \in Descriptors} \cup {Malformed}

\* getSPMetadata: parse the request body into an EntityDescriptor.
getSPMetadata(body) ==
    IF body.xml = "EntityDescriptor"
    THEN [err |-> ErrNil, metadata |-> Some(EntityDescriptor(body.entityID, body.rest))]
    ELSE [err |-> "decode", metadata |-> None]

\* type Service struct
Service(name, md) == [Name |-> name, Metadata |-> md]

\* The registry with key e set / removed.
RegistryInsert(e, md) ==
    [k \in DOMAIN serviceProviders \cup {e} |-> IF k = e THEN md ELSE serviceProviders[k]]
RegistryDelete(e) ==
    [k \in DOMAIN serviceProviders \ {e} |-> serviceProviders[k]]

\* GetServiceProvider's result under the read lock.
LookupResult(serviceProviderID) ==
    IF serviceProviderID \in DOMAIN serviceProviders
    THEN [err |-> ErrNil, rv |-> Some(serviceProviders[serviceProviderID])]
    ELSE [err |-> "os.ErrNotExist", rv |-> None]

\* GetServiceProvider: RLock.
GetServiceProvider_RLock(w) ==
    /\ workers[w].pc = "idle"
    /\ CanRLock
    /\ \E e \in EntityIDs :
          workers' = Only(w, [Begin("GetServiceProvider", e, None) EXCEPT !.pc = "read"])
    /\ idpConfigMu' = RLock(w)
    /\ UNCHANGED <<store, deleteIdempotent, serviceProviders, history, startup>>

\* GetServiceProvider: the map read and the deferred RUnlock.
GetServiceProvider_Read(w) ==
    /\ workers[w].pc = "read"
    /\ workers[w].kind = "GetServiceProvider"
    /\ LET r == LookupResult(workers[w].id[1])
       IN workers' = Only(w, Reply(workers[w],
                         IF r.err = ErrNil THEN Response(StatusOK, r.rv)
                         ELSE Response(StatusInternalServerError, None)))
    /\ idpConfigMu' = RUnlock(w)
    /\ UNCHANGED <<store, deleteIdempotent, serviceProviders, history, startup>>

\* HandleListServices.
HandleListServices(w) ==
    /\ workers[w].pc = "idle"
    /\ \E fails \in BOOLEAN :
          LET r == StoreList("services", fails)
          IN workers' = Only(w, Reply(Begin("ListServices", 0, None),
                            IF r.err # ErrNil THEN HttpError(StatusInternalServerError)
                            ELSE Response(StatusOK, Some(r.names))))
    /\ UNCHANGED <<store, deleteIdempotent, serviceProviders, idpConfigMu, history, startup>>

\* What HandleGetService answers for id.
GetServiceResponse(id, fails) ==
    LET r == StoreGet(Key("services", id), fails)
    IN IF r.err # ErrNil THEN HttpError(StatusInternalServerError)
       ELSE Response(StatusOK, Some(XmlEncode(r.value[1].Metadata)))

\* HandleGetService.
HandleGetService(w, ids) ==
    /\ workers[w].pc = "idle"
    /\ \E id \in ids, fails \in BOOLEAN :
          workers' = Only(w, Reply(Begin("GetService", id, None),
                                   GetServiceResponse(id, fails)))
    /\ UNCHANGED <<store, deleteIdempotent, serviceProviders, idpConfigMu, history, startup>>

\* HandlePutService: getSPMetadata on the request body.
HandlePutService_Decode(w, ids) ==
    /\ workers[w].pc = "idle"
    /\ \E id \in ids, body \in ServiceBodies :
          LET r == getSPMetadata(body)
              rec == Begin("PutService", id, Some(body))
          IN workers' = Only(w,
                IF r.err # ErrNil THEN Reply(rec, HttpError(StatusBadRequest))
                ELSE [rec EXCEPT !.pc = "put",
                                 !.local = Some(Service("", r.metadata[1]))])
    /\ UNCHANGED <<store, deleteIdempotent, serviceProviders, idpConfigMu, history, startup>>

\* HandlePutService_Put with the error of Store.Put ignored.
HandlePutService_Put_IgnoreErr(w) ==
    /\ workers[w].pc = "put"
    /\ workers[w].kind = "PutService"
    /\ \E fails \in BOOLEAN :
          LET r == StorePut(Key("services", workers[w].id[1]), workers[w].local[1], fails)
          IN /\ store' = r.store
             /\ workers' =
                  Disturbing(w, [workers[w] EXCEPT !.pc = "lock", !.wrote = (r.err = ErrNil)])
    /\ UNCHANGED <<deleteIdempotent, serviceProviders, idpConfigMu, history, startup>>

\* HandlePutService: Store.Put of the service.
HandlePutService_Put(w) ==
    /\ workers[w].pc = "put"
    /\ workers[w].kind = "PutService"
    /\ \E fails \in BOOLEAN :
          LET r == StorePut(Key("services", workers[w].id[1]), workers[w].local[1], fails)
          IN /\ store' = r.store
             /\ workers' =
                  IF r.err # ErrNil
                  THEN Only(w, Reply(workers[w], HttpError(StatusInternalServerError)))
                  ELSE Disturbing(w, [workers[w] EXCEPT !.pc = "lock", !.wrote = TRUE])
    /\ UNCHANGED <<deleteIdempotent, serviceProviders, idpConfigMu, history, startup>>

\* HandlePutService: the call of idpConfigMu.Lock().
HandlePutService_Lock(w) ==
    /\ workers[w].pc = "lock"
    /\ workers[w].kind = "PutService"
    /\ CanLock
    /\ idpConfigMu' = Lock(w)
    /\ workers' = Only(w, [workers[w] EXCEPT !.pc = "registry"])
    /\ UNCHANGED <<store, deleteIdempotent, serviceProviders, history, startup>>

\* HandlePutService_Registry with the insert keyed by another EntityID.
HandlePutService_Registry_WrongKey(w) ==
    /\ workers[w].pc = "registry"
    /\ workers[w].kind = "PutService"
    /\ Locked(w)
    /\ LET md == workers[w].local[1].Metadata
       IN \E e \in EntityIDs \ {md.EntityID} : serviceProviders' = RegistryInsert(e, md)
    /\ idpConfigMu' = Unlock(w)
    /\ workers' = Disturbing(w, Reply([workers[w] EXCEPT !.mutated = TRUE],
                                      Response(StatusNoContent, None)))
    /\ UNCHANGED <<store, deleteIdempotent, history, startup>>

\* HandlePutService_Registry with every other key evicted by the insert.
HandlePutService_Registry_Evict(w) ==
    /\ workers[w].pc = "registry"
    /\ workers[w].kind = "PutService"
    /\ Locked(w)
    /\ LET md == workers[w].local[1].Metadata
       IN serviceProviders' = [k \in {md.EntityID} |-> md]
    /\ idpConfigMu' = Unlock(w)
    /\ workers' = Disturbing(w, Reply([workers[w] EXCEPT !.mutated = TRUE],
                                      Response(StatusNoContent, None)))
    /\ UNCHANGED <<store, deleteIdempotent, history, startup>>

\* HandlePutService: Lock has returned; the registry insert, Unlock and the 204.
HandlePutService_Registry(w) ==
    /\ workers[w].pc = "registry"
    /\ workers[w].kind = "PutService"
    /\ Locked(w)
    /\ LET md == workers[w].local[1].Metadata
       IN serviceProviders' = RegistryInsert(md.EntityID, md)
    /\ idpConfigMu' = Unlock(w)
    /\ workers' = Disturbing(w, Reply([workers[w] EXCEPT !.mutated = TRUE],
                                      Response(StatusNoContent, None)))
    /\ UNCHANGED <<store, deleteIdempotent, history, startup>>

\* HandleDeleteService: Store.Get of the existing record.
HandleDeleteService_Get(w, ids) ==
    /\ workers[w].pc = "idle"
    /\ \E id \in ids, fails \in BOOLEAN :
          LET r == StoreGet(Key("services", id), fails)
              rec == Begin("DeleteService", id, None)
          IN workers' = Only(w,
                IF r.err # ErrNil THEN Reply(rec, HttpError(StatusInternalServerError))
                ELSE [rec EXCEPT !.pc = "delete", !.local = r.value])
    /\ UNCHANGED <<store, deleteIdempotent, serviceProviders, idpConfigMu, history, startup>>

\* HandleDeleteService: Store.Delete.
HandleDeleteService_Delete(w) ==
    /\ workers[w].pc = "delete"
    /\ workers[w].kind = "DeleteService"
    /\ \E fails \in BOOLEAN :
          LET r == StoreDelete(Key("services", workers[w].id[1]), fails)
          IN /\ store' = r.store
             /\ workers' =
                  IF r.err # ErrNil
                  THEN Only(w, Reply(workers[w], HttpError(StatusInternalServerError)))
                  ELSE Disturbing(w, [workers[w] EXCEPT !.pc = "lock", !.wrote = TRUE])
    /\ UNCHANGED <<deleteIdempotent, serviceProviders, idpConfigMu, history, startup>>

\* HandleDeleteService: the call of idpConfigMu.Lock().
HandleDeleteService_Lock(w) ==
    /\ workers[w].pc = "lock"
    /\ workers[w].kind = "DeleteService"
    /\ CanLock
    /\ idpConfigMu' = Lock(w)
    /\ workers' = Only(w, [workers[w] EXCEPT !.pc = "registry"])
    /\ UNCHANGED <<store, deleteIdempotent, serviceProviders, history, startup>>

\* HandleDeleteService_Registry with the key left in the Registry.
HandleDeleteService_Registry_Keep(w) ==
    /\ workers[w].pc = "registry"
    /\ workers[w].kind = "DeleteService"
    /\ Locked(w)
    /\ serviceProviders' = serviceProviders
    /\ idpConfigMu' = Unlock(w)
    /\ workers' = Disturbing(w, Reply([workers[w] EXCEPT !.mutated = TRUE],
                                      Response(StatusNoContent, None)))
    /\ UNCHANGED <<store, deleteIdempotent, history, startup>>

\* HandleDeleteService: Lock has returned; the registry delete, Unlock and the
\* 204.
HandleDeleteService_Registry(w) ==
    /\ workers[w].pc = "registry"
    /\ workers[w].kind = "DeleteService"
    /\ Locked(w)
    /\ serviceProviders' = RegistryDelete(workers[w].local[1].Metadata.EntityID)
    /\ idpConfigMu' = Unlock(w)
    /\ workers' = Disturbing(w, Reply([workers[w] EXCEPT !.mutated = TRUE],
                                      Response(StatusNoContent, None)))
    /\ UNCHANGED <<store, deleteIdempotent, history, startup>>

(***************************************************************************)
(* New and initializeServices, run by the goroutine that constructs the    *)
(* Server, before any request is served.                                   *)
(***************************************************************************)
\* New has built the Server struct and is about to call initializeServices.
Starting == [pc |-> "list", names |-> {}, service |-> None, err |-> ErrNil]
\* New has returned the Server.
Serving == [pc |-> "serving", names |-> {}, service |-> None, err |-> ErrNil]
\* New has returned (nil, err).
Failed(err) == [pc |-> "failed", names |-> {}, service |-> None, err |-> err]

\* initializeServices_Get with a failed Store.Get skipped, not returned.
initializeServices_Get_SkipErr ==
    /\ startup.pc = "get"
    /\ \E serviceName \in startup.names, fails \in BOOLEAN :
          LET r == StoreGet(Key("services", serviceName), fails)
          IN startup' =
                IF r.err # ErrNil
                THEN [startup EXCEPT !.names = @ \ {serviceName}]
                ELSE [startup EXCEPT !.pc = "lock", !.names = @ \ {serviceName},
                                     !.service = r.value]
    /\ UNCHANGED <<store, deleteIdempotent, serviceProviders, idpConfigMu, workers, history>>

\* initializeServices: Store.List of the service names.
initializeServices_List ==
    /\ startup.pc = "list"
    /\ \E fails \in BOOLEAN :
          LET r == StoreList("services", fails)
          IN startup' = IF r.err # ErrNil THEN Failed(r.err)
                        ELSE [startup EXCEPT !.pc = "get", !.names = r.names]
    /\ UNCHANGED <<store, deleteIdempotent, serviceProviders, idpConfigMu, workers, history>>

\* initializeServices: Store.Get of the next name, in the order the Store
\* listed them (any order).
initializeServices_Get ==
    /\ startup.pc = "get"
    /\ \E serviceName \in startup.names, fails \in BOOLEAN :
          LET r == StoreGet(Key("services", serviceName), fails)
          IN startup' =
                IF r.err # ErrNil THEN Failed(r.err)
                ELSE [startup EXCEPT !.pc = "lock", !.names = @ \ {serviceName},
                                     !.service = r.value]
    /\ UNCHANGED <<store, deleteIdempotent, serviceProviders, idpConfigMu, workers, history>>

\* initializeServices returns nil with no name left; New calls InitializeHTTP
\* and returns the Server: requests are served from here on.
New_InitializeHTTP ==
    /\ startup.pc = "get"
    /\ startup.names = {}
    /\ startup' = Serving
    /\ workers' = [w \in Workers |-> Idle]
    /\ UNCHANGED <<store, deleteIdempotent, serviceProviders, idpConfigMu, history>>

\* initializeServices: the call of idpConfigMu.Lock().
initializeServices_Lock ==
    /\ startup.pc = "lock"
    /\ CanLock
    /\ idpConfigMu' = Lock(Main)
    /\ startup' = [startup EXCEPT !.pc = "registry"]
    /\ UNCHANGED <<store, deleteIdempotent, serviceProviders, workers, history>>

\* initializeServices: Lock has returned; the registry insert and Unlock.
initializeServices_Registry ==
    /\ startup.pc = "registry"
    /\ Locked(Main)
    /\ LET md == startup.service[1].Metadata
       IN serviceProviders' = RegistryInsert(md.EntityID, md)
    /\ idpConfigMu' = Unlock(Main)
    /\ startup' = [startup EXCEPT !.pc = "get", !.service = None]
    /\ UNCHANGED <<store, deleteIdempotent, workers, history>>

(***************************************************************************)
(* JSON request bodies: an object is a function from its keys to values.   *)
(* The decoder fills the struct field whose tag names the key and ignores  *)
(* every other key.                                                        *)
(***************************************************************************)
JsonObject(obj) == [ok |-> TRUE, obj |-> obj]
JsonMalformed == [ok |-> FALSE, obj |-> <<>>]
\* The value of a key, or the field's zero value when the key is absent.
Field(obj, key, zero) == IF key \in DOMAIN obj THEN obj[key] ELSE zero
\* A pointer field: nil when the key is absent.
PtrField(obj, key) == IF key \in DOMAIN obj THEN Some(obj[key]) ELSE None

(***************************************************************************)
(* Users.                                                                  *)
(***************************************************************************)
\* A []byte credential: nil, a bcrypt hash, or bytes the client sent.
NoHash == <<>>
ForgedHash == <<"forged">>
\* bcrypt.GenerateFromPassword: the hash embeds the salt it drew.
GenerateFromPassword(password, salt) == <<"bcrypt", password, salt>>

\* json.Decode into User{} (tags: name, password, hashed_password, groups,
\* email, common_name, surname, given_name, scoped_affiliation).
DecodeUser(obj) ==
    [Name              |-> Field(obj, "name", ""),
     PlaintextPassword |-> PtrField(obj, "password"),
     HashedPassword    |-> Field(obj, "hashed_password", NoHash),
     Groups            |-> Field(obj, "groups", <<>>),
     Email             |-> Field(obj, "email", ""),
     CommonName        |-> Field(obj, "common_name", ""),
     Surname           |-> Field(obj, "surname", ""),
     GivenName         |-> Field(obj, "given_name", ""),
     ScopedAffiliation |-> Field(obj, "scoped_affiliation", "")]

\* json.Encode of a User: name always, every other field only when non-empty.
UserJsonKeys(u) ==
    {"name"}
    \cup (IF u.PlaintextPassword # None THEN {"password"} ELSE {})
    \cup (IF u.HashedPassword # NoHash THEN {"hashed_password"} ELSE {})
    \cup (IF u.Groups # <<>> THEN {"groups"} ELSE {})
    \cup (IF u.Email # "" THEN {"email"} ELSE {})
    \cup (IF u.CommonName # "" THEN {"common_name"} ELSE {})
    \cup (IF u.Surname # "" THEN {"surname"} ELSE {})
    \cup (IF u.GivenName # "" THEN {"given_name"} ELSE {})
    \cup (IF u.ScopedAffiliation # "" THEN {"scoped_affiliation"} ELSE {})

EncodeUser(u) ==
    [k \in UserJsonKeys(u) |->
        CASE k = "name" -> u.Name
          [] k = "password" -> u.PlaintextPassword[1]
          [] k = "hashed_password" -> u.HashedPassword
          [] k = "groups" -> u.Groups
          [] k = "email" -> u.Email
          [] k = "common_name" -> u.CommonName
          [] k = "surname" -> u.Surname
          [] k = "given_name" -> u.GivenName
          [] k = "scoped_affiliation" -> u.ScopedAffiliation]

\* The request bodies tried for PUT /users/:id.
UserObjects ==
    { [name |-> "mallory"] }
    \cup { [email |-> "a@sp.example"] }
    \cup { [name |-> "mallory", hashed_password |-> ForgedHash] }
    \cup { [password |-> p] : p \in Passwords }
    \cup { [password |-> p, email |-> "a@sp.example"] : p \in Passwords }
    \cup { [password |-> p, hashed_password |-> ForgedHash] : p \in Passwords }
UserBodies == {JsonObject(o) : o \in UserObjects} \cup {JsonMalformed}

\* HandleGetUser without the line that clears HashedPassword.
ScrubHashedPassword_Kept(user) == user

\* HandlePutUser without the line that clears PlaintextPassword.
ScrubPlaintextPassword_Kept(user) == user

\* user.HashedPassword = nil, before HandleGetUser encodes the user.
ScrubHashedPassword(user) == [user EXCEPT !.HashedPassword = NoHash]
\* user.PlaintextPassword = nil, before HandlePutUser stores the user.
ScrubPlaintextPassword(user) == [user EXCEPT !.PlaintextPassword = None]

\* HandlePutUser keeping the credential the body sent, not the stored one.
CarryForward_FromBody(user, existingUser) == user

\* The fields a PUT without a password keeps from the stored user.
CarryForward(user, existingUser) ==
    [user EXCEPT !.HashedPassword = existingUser.HashedPassword]

\* HandleListUsers.
HandleListUsers(w) ==
    /\ workers[w].pc = "idle"
    /\ \E fails \in BOOLEAN :
          LET r == StoreList("users", fails)
          IN workers' = Only(w, Reply(Begin("ListUsers", 0, None),
                            IF r.err # ErrNil THEN HttpError(StatusInternalServerError)
                            ELSE Response(StatusOK, Some(r.names))))
    /\ UNCHANGED <<store, deleteIdempotent, serviceProviders, idpConfigMu, history, startup>>

\* HandleGetUser.
HandleGetUser(w, ids) ==
    /\ workers[w].pc = "idle"
    /\ \E id \in ids, fails \in BOOLEAN :
          LET r == StoreGet(Key("users", id), fails)
          IN workers' = Only(w, Reply(Begin("GetUser", id, None),
                IF r.err # ErrNil THEN HttpError(StatusInternalServerError)
                ELSE Response(StatusOK, Some(EncodeUser(ScrubHashedPassword(r.value[1]))))))
    /\ UNCHANGED <<store, deleteIdempotent, serviceProviders, idpConfigMu, history, startup>>

\* HandlePutUser: decode the body, set the name from the path and, when a
\* plaintext password is present, hash it.
HandlePutUser_Decode(w, ids) ==
    /\ workers[w].pc = "idle"
    /\ \E id \in ids, body \in UserBodies, salt \in Salts, hashFails \in BOOLEAN :
          LET rec == Begin("PutUser", id, None)
              user == [DecodeUser(body.obj) EXCEPT !.Name = Param(id)]
          IN workers' = Only(w,
                IF ~body.ok THEN Reply(rec, HttpError(StatusBadRequest))
                ELSE IF user.PlaintextPassword # None
                THEN IF hashFails
                     THEN Reply(rec, HttpError(StatusInternalServerError))
                     ELSE [rec EXCEPT !.pc = "put",
                              !.local = Some([user EXCEPT !.HashedPassword =
                                  GenerateFromPassword(user.PlaintextPassword[1], salt)])]
                ELSE [rec EXCEPT !.pc = "get", !.local = Some(user)])
    /\ UNCHANGED <<store, deleteIdempotent, serviceProviders, idpConfigMu, history, startup>>

\* HandlePutUser without a password: Store.Get of the existing user.
HandlePutUser_Get(w) ==
    /\ workers[w].pc = "get"
    /\ workers[w].kind = "PutUser"
    /\ \E fails \in BOOLEAN :
          LET r == StoreGet(Key("users", workers[w].id[1]), fails)
              user == workers[w].local[1]
          IN workers' = Only(w,
                CASE r.err = ErrNil ->
                        [workers[w] EXCEPT !.pc = "put",
                            !.local = Some(CarryForward(user, r.value[1]))]
                  [] r.err = ErrNotFound -> [workers[w] EXCEPT !.pc = "put"]
                  [] OTHER -> Reply(workers[w], HttpError(StatusInternalServerError)))
    /\ UNCHANGED <<store, deleteIdempotent, serviceProviders, idpConfigMu, history, startup>>

\* HandlePutUser: clear the plaintext, Store.Put, and the 204.
HandlePutUser_Put(w) ==
    /\ workers[w].pc = "put"
    /\ workers[w].kind = "PutUser"
    /\ \E fails \in BOOLEAN :
          LET id == workers[w].id[1]
              user == ScrubPlaintextPassword(workers[w].local[1])
              r == StorePut(Key("users", id), user, fails)
              withPassword == workers[w].local[1].PlaintextPassword # None
          IN /\ store' = r.store
             /\ workers' = Only(w,
                   IF r.err # ErrNil
                   THEN Reply(workers[w], HttpError(StatusInternalServerError))
                   ELSE Reply([workers[w] EXCEPT !.wrote = TRUE],
                              Response(StatusNoContent, None)))
             /\ passwordHash' =
                   IF r.err = ErrNil /\ withPassword
                   THEN [passwordHash EXCEPT ![id] = Some(user.HashedPassword)]
                   ELSE passwordHash
    /\ UNCHANGED <<deleteIdempotent, serviceProviders, idpConfigMu, shortcutBody, startup>>

\* HandleDeleteUser.
HandleDeleteUser(w, ids) ==
    /\ workers[w].pc = "idle"
    /\ \E id \in ids, fails \in BOOLEAN :
          LET r == StoreDelete(Key("users", id), fails)
              rec == Begin("DeleteUser", id, None)
          IN /\ store' = r.store
             /\ workers' = Only(w,
                   IF r.err # ErrNil
                   THEN Reply(rec, HttpError(StatusInternalServerError))
                   ELSE Reply([rec EXCEPT !.wrote = TRUE], Response(StatusNoContent, None)))
             /\ passwordHash' =
                   IF r.err = ErrNil THEN [passwordHash EXCEPT ![id] = None]
                   ELSE passwordHash
    /\ UNCHANGED <<deleteIdempotent, serviceProviders, idpConfigMu, shortcutBody, startup>>

(***************************************************************************)
(* Shortcuts and the IDP-initiated login.                                  *)
(***************************************************************************)
\* Decoding with the flag's tag spelled after the Go field, uri_...
DecodeShortcut_UriTag(obj) ==
    [Name                  |-> Field(obj, "name", ""),
     ServiceProviderID     |-> Field(obj, "service_provider", ""),
     RelayState            |-> PtrField(obj, "relay_state"),
     URISuffixAsRelayState |-> Field(obj, "uri_suffix_as_relay_state", FALSE)]

\* json.Decode into Shortcut{} (tags: name, service_provider, relay_state,
\* url_suffix_as_relay_state).
DecodeShortcut(obj) ==
    [Name                  |-> Field(obj, "name", ""),
     ServiceProviderID     |-> Field(obj, "service_provider", ""),
     RelayState            |-> PtrField(obj, "relay_state"),
     URISuffixAsRelayState |-> Field(obj, "url_suffix_as_relay_state", FALSE)]

\* json.Encode of a Shortcut: relay_state and url_suffix_as_relay_state only
\* when non-empty.
ShortcutJsonKeys(s) ==
    {"name", "service_provider"}
    \cup (IF s.RelayState # None THEN {"relay_state"} ELSE {})
    \cup (IF s.URISuffixAsRelayState THEN {"url_suffix_as_relay_state"} ELSE {})

EncodeShortcut(s) ==
    [k \in ShortcutJsonKeys(s) |->
        CASE k = "name" -> s.Name
          [] k = "service_provider" -> s.ServiceProviderID
          [] k = "relay_state" -> s.RelayState[1]
          [] k = "url_suffix_as_relay_state" -> s.URISuffixAsRelayState]

\* The request bodies tried for PUT /shortcuts/:id.
ShortcutObjects ==
    { [service_provider |-> e] : e \in EntityIDs }
    \cup { [service_provider |-> e, uri_suffix_as_relay_state |-> TRUE] : e \in EntityIDs }
    \cup { [service_provider |-> e, url_suffix_as_relay_state |-> TRUE] : e \in EntityIDs }
    \cup { [name |-> "other", service_provider |-> e, relay_state |-> rs] :
              e \in EntityIDs, rs \in {"fixed", ""} }
    \cup { [service_provider |-> e, relay_state |-> rs, url_suffix_as_relay_state |-> TRUE] :
              e \in EntityIDs, rs \in {"fixed", ""} }
ShortcutBodies == {JsonObject(o) : o \in ShortcutObjects} \cup {JsonMalformed}

\* HandleListShortcuts.
HandleListShortcuts(w) ==
    /\ workers[w].pc = "idle"
    /\ \E fails \in BOOLEAN :
          LET r == StoreList("shortcuts", fails)
          IN workers' = Only(w, Reply(Begin("ListShortcuts", 0, None),
                            IF r.err # ErrNil THEN HttpError(StatusInternalServerError)
                            ELSE Response(StatusOK, Some(r.names))))
    /\ UNCHANGED <<store, deleteIdempotent, serviceProviders, idpConfigMu, history, startup>>

\* HandleGetShortcut answering a missing shortcut apart from other failures.
HandleGetShortcut_NotFoundApart(w) ==
    /\ workers[w].pc = "idle"
    /\ \E id \in ShortcutIDs, fails \in BOOLEAN :
          LET r == StoreGet(Key("shortcuts", id), fails)
          IN workers' = Only(w, Reply(Begin("GetShortcut", id, None),
                IF r.err = ErrNotFound THEN HttpError(StatusBadRequest)
                ELSE IF r.err # ErrNil THEN HttpError(StatusInternalServerError)
                ELSE Response(StatusOK, Some(EncodeShortcut(r.value[1])))))
    /\ UNCHANGED <<store, deleteIdempotent, serviceProviders, idpConfigMu, history, startup>>

\* HandleGetShortcut.
HandleGetShortcut(w) ==
    /\ workers[w].pc = "idle"
    /\ \E id \in ShortcutIDs, fails \in BOOLEAN :
          LET r == StoreGet(Key("shortcuts", id), fails)
          IN workers' = Only(w, Reply(Begin("GetShortcut", id, None),
                IF r.err # ErrNil THEN HttpError(StatusInternalServerError)
                ELSE Response(StatusOK, Some(EncodeShortcut(r.value[1])))))
    /\ UNCHANGED <<store, deleteIdempotent, serviceProviders, idpConfigMu, history, startup>>

\* HandlePutShortcut: decode the body, set the name from the path, Store.Put.
HandlePutShortcut(w) ==
    /\ workers[w].pc = "idle"
    /\ \E id \in ShortcutIDs, body \in ShortcutBodies, fails \in BOOLEAN :
          LET rec == Begin("PutShortcut", id, Some(body))
              shortcut == [DecodeShortcut(body.obj) EXCEPT !.Name = id]
              r == StorePut(Key("shortcuts", id), shortcut, fails)
          IN IF ~body.ok
             THEN /\ workers' = Only(w, Reply(rec, HttpError(StatusBadRequest)))
                  /\ UNCHANGED <<store, shortcutBody>>
             ELSE /\ store' = r.store
                  /\ workers' = Only(w,
                        IF r.err # ErrNil
                        THEN Reply(rec, HttpError(StatusInternalServerError))
                        ELSE Reply([rec EXCEPT !.local = Some(shortcut), !.wrote = TRUE],
                                   Response(StatusNoContent, None)))
                  /\ shortcutBody' =
                        IF r.err = ErrNil THEN [shortcutBody EXCEPT ![id] = Some(body)]
                        ELSE shortcutBody
    /\ UNCHANGED <<deleteIdempotent, serviceProviders, idpConfigMu, passwordHash, startup>>

\* HandleDeleteShortcut emptying the Registry as well.
HandleDeleteShortcut_Evict(w) ==
    /\ workers[w].pc = "idle"
    /\ \E id \in ShortcutIDs, fails \in BOOLEAN :
          LET r == StoreDelete(Key("shortcuts", id), fails)
              rec == Begin("DeleteShortcut", id, None)
          IN /\ store' = r.store
             /\ workers' = Only(w,
                   IF r.err # ErrNil
                   THEN Reply(rec, HttpError(StatusInternalServerError))
                   ELSE Reply([rec EXCEPT !.wrote = TRUE], Response(StatusNoContent, None)))
             /\ shortcutBody' =
                   IF r.err = ErrNil THEN [shortcutBody EXCEPT ![id] = None]
                   ELSE shortcutBody
    /\ serviceProviders' = <<>>
    /\ UNCHANGED <<deleteIdempotent, idpConfigMu, passwordHash, startup>>

\* HandleDeleteShortcut.
HandleDeleteShortcut(w) ==
    /\ workers[w].pc = "idle"
    /\ \E id \in ShortcutIDs, fails \in BOOLEAN :
          LET r == StoreDelete(Key("shortcuts", id), fails)
              rec == Begin("DeleteShortcut", id, None)
          IN /\ store' = r.store
             /\ workers' = Only(w,
                   IF r.err # ErrNil
                   THEN Reply(rec, HttpError(StatusInternalServerError))
                   ELSE Reply([rec EXCEPT !.wrote = TRUE], Response(StatusNoContent, None)))
             /\ shortcutBody' =
                   IF r.err = ErrNil THEN [shortcutBody EXCEPT ![id] = None]
                   ELSE shortcutBody
    /\ UNCHANGED <<deleteIdempotent, serviceProviders, idpConfigMu, passwordHash, startup>>

\* The switch with its two cases in the other order.
RelayState_SuffixFirst(shortcut, state) ==
    IF shortcut.URISuffixAsRelayState THEN state
    ELSE IF shortcut.RelayState # None THEN shortcut.RelayState[1]
    ELSE ""

\* The relay state HandleIDPInitiated computes (its switch statement).
RelayState(shortcut, state) ==
    IF shortcut.RelayState # None THEN shortcut.RelayState[1]
    ELSE IF shortcut.URISuffixAsRelayState THEN state
    ELSE ""

\* HandleIDPInitiated_Get going on with the zero Shortcut when Store.Get fails.
HandleIDPInitiated_Get_IgnoreErr(w) ==
    /\ workers[w].pc = "idle"
    /\ \E shortcutName \in ShortcutIDs, state \in PathStates, fails \in BOOLEAN :
          LET r == StoreGet(Key("shortcuts", shortcutName), fails)
              rec == [Begin("IDPInitiated", shortcutName, shortcutBody[shortcutName])
                         EXCEPT !.state = Some(state)]
          IN workers' = Only(w,
                IF r.err # ErrNil
                THEN [rec EXCEPT !.pc = "rlock", !.local = Some(DecodeShortcut(<<>>)),
                                 !.resp = HttpError(StatusInternalServerError)]
                ELSE [rec EXCEPT !.pc = "rlock", !.local = r.value])
    /\ UNCHANGED <<store, deleteIdempotent, serviceProviders, idpConfigMu, history, startup>>

\* HandleIDPInitiated: Store.Get of the named shortcut.  The worker keeps
\* the body that stored the shortcut it read (history).
HandleIDPInitiated_Get(w) ==
    /\ workers[w].pc = "idle"
    /\ \E shortcutName \in ShortcutIDs, state \in PathStates, fails \in BOOLEAN :
          LET r == StoreGet(Key("shortcuts", shortcutName), fails)
              rec == [Begin("IDPInitiated", shortcutName, shortcutBody[shortcutName])
                         EXCEPT !.state = Some(state)]
          IN workers' = Only(w,
                IF r.err # ErrNil THEN Reply(rec, HttpError(StatusInternalServerError))
                ELSE [rec EXCEPT !.pc = "rlock", !.local = r.value])
    /\ UNCHANGED <<store, deleteIdempotent, serviceProviders, idpConfigMu, history, startup>>

\* HandleIDPInitiated: idpConfigMu.RLock().
HandleIDPInitiated_RLock(w) ==
    /\ workers[w].pc = "rlock"
    /\ workers[w].kind = "IDPInitiated"
    /\ CanRLock
    /\ idpConfigMu' = RLock(w)
    /\ workers' = Only(w, [workers[w] EXCEPT !.pc = "serve"])
    /\ UNCHANGED <<store, deleteIdempotent, serviceProviders, history, startup>>

\* HandleIDPInitiated: the call of IDP.ServeIDPInitiated with the shortcut's
\* service provider and the relay state.  The engine calls back
\* GetServiceProvider (the Server is its ServiceProviderProvider), whose RLock
\* is taken while the handler's own RLock is held.
HandleIDPInitiated_Serve(w) ==
    /\ workers[w].pc = "serve"
    /\ workers[w].kind = "IDPInitiated"
    /\ CanRLock
    /\ LET shortcut == workers[w].local[1]
       IN workers' = Only(w, [workers[w] EXCEPT
             !.pc = "lookup",
             !.handoff = Some([serviceProviderID |-> shortcut.ServiceProviderID,
                               relayState |-> RelayState(shortcut, workers[w].state[1])])])
    /\ idpConfigMu' = RLock(w)
    /\ UNCHANGED <<store, deleteIdempotent, serviceProviders, history, startup>>

\* HandleIDPInitiated: GetServiceProvider's map read and RUnlock inside the
\* engine, the engine's response, and the handler's deferred RUnlock.
HandleIDPInitiated_Lookup(w) ==
    /\ workers[w].pc = "lookup"
    /\ workers[w].kind = "IDPInitiated"
    /\ LET r == LookupResult(workers[w].handoff[1].serviceProviderID)
       IN workers' = Only(w, [workers[w] EXCEPT !.pc = "done", !.found = r.rv])
    /\ idpConfigMu' = RUnlockTimes(w, 2)
    /\ UNCHANGED <<store, deleteIdempotent, serviceProviders, history, startup>>

\* The /sso route: idpConfigMu.RLock().
HandleSSO_RLock(w) ==
    /\ workers[w].pc = "idle"
    /\ CanRLock
    /\ \E e \in EntityIDs :
          workers' = Only(w, [Begin("SSO", e, None) EXCEPT !.pc = "serve"])
    /\ idpConfigMu' = RLock(w)
    /\ UNCHANGED <<store, deleteIdempotent, serviceProviders, history, startup>>

\* The /sso route: the call of IDP.ServeSSO.  The engine calls back
\* GetServiceProvider for the request's issuer, whose RLock is taken while
\* the route's own RLock is held.
HandleSSO_Serve(w) ==
    /\ workers[w].pc = "serve"
    /\ workers[w].kind = "SSO"
    /\ CanRLock
    /\ workers' = Only(w, [workers[w] EXCEPT !.pc = "lookup"])
    /\ idpConfigMu' = RLock(w)
    /\ UNCHANGED <<store, deleteIdempotent, serviceProviders, history, startup>>

\* The /sso route: GetServiceProvider's map read and RUnlock inside the
\* engine, the engine's response, and the route's deferred RUnlock.
HandleSSO_Lookup(w) ==
    /\ workers[w].pc = "lookup"
    /\ workers[w].kind = "SSO"
    /\ LET r == LookupResult(workers[w].id[1])
       IN workers' = Only(w, [workers[w] EXCEPT !.pc = "done", !.found = r.rv])
    /\ idpConfigMu' = RUnlockTimes(w, 2)
    /\ UNCHANGED <<store, deleteIdempotent, serviceProviders, history, startup>>

\* The response has been sent; the worker is free for the next request.
Finish(w) ==
    /\ workers[w].pc = "done"
    /\ workers' = Only(w, Idle)
    /\ UNCHANGED <<store, deleteIdempotent, serviceProviders, idpConfigMu, history, startup>>

(***************************************************************************)
(* Specifications.                                                         *)
(***************************************************************************)
\* The state New returns over an empty Store.
Init ==
    /\ store = <<>>
    /\ deleteIdempotent \in BOOLEAN
    /\ serviceProviders = <<>>
    /\ idpConfigMu = Unlocked
    /\ workers = [w \in Workers |-> Idle]
    /\ startup = Serving
    /\ passwordHash = [id \in UserIDs |-> None]
    /\ shortcutBody = [id \in ShortcutIDs |-> None]

\* The Stores the process may start over: each id holds a Service an earlier
\* PUT stored, or nothing.
PreloadedStores ==
    UNION { [{Key("services", id) : id \in ids} -> {Service("", md) : md \in Descriptors}] :
              ids \in SUBSET StoredServiceIDs }

\* New is about to call initializeServices over a Store with Services in it.
StartupInit ==
    /\ store \in PreloadedStores
    /\ deleteIdempotent \in BOOLEAN
    /\ serviceProviders = <<>>
    /\ idpConfigMu = Unlocked
    /\ workers = [w \in Workers |-> Unrouted]
    /\ startup = Starting
    /\ passwordHash = [id \in UserIDs |-> None]
    /\ shortcutBody = [id \in ShortcutIDs |-> None]

ShortcutStep(w) ==
    \/ HandleListShortcuts(w)
    \/ HandleGetShortcut(w)
    \/ HandlePutShortcut(w)
    \/ HandleDeleteShortcut(w)
    \/ HandleIDPInitiated_Get(w)
    \/ HandleIDPInitiated_RLock(w)
    \/ HandleIDPInitiated_Serve(w)
    \/ HandleIDPInitiated_Lookup(w)
    \/ Finish(w)

\* A step of a User request addressing one of ids.
UserStep(w, ids) ==
    \/ HandleListUsers(w)
    \/ HandleGetUser(w, ids)
    \/ HandlePutUser_Decode(w, ids)
    \/ HandlePutUser_Get(w)
    \/ HandlePutUser_Put(w)
    \/ HandleDeleteUser(w, ids)
    \/ Finish(w)

\* A step of a Service request addressing one of ids, or of a registry lookup.
ServiceStep(w, ids) ==
    \/ GetServiceProvider_RLock(w)
    \/ GetServiceProvider_Read(w)
    \/ HandleListServices(w)
    \/ HandleGetService(w, ids)
    \/ HandlePutService_Decode(w, ids)
    \/ HandlePutService_Put(w)
    \/ HandlePutService_Lock(w)
    \/ HandlePutService_Registry(w)
    \/ HandleDeleteService_Get(w, ids)
    \/ HandleDeleteService_Delete(w)
    \/ HandleDeleteService_Lock(w)
    \/ HandleDeleteService_Registry(w)
    \/ Finish(w)

ServiceNext == \E w \in Workers : ServiceStep(w, ServiceIDs)

\* Concurrent Service requests and registry lookups.
ServiceSpec == Init /\ [][ServiceNext]_vars

UserNext == \E w \in Workers : UserStep(w, {1})

\* Concurrent User requests on the same id.
UserSpec == Init /\ [][UserNext]_vars

\* User requests served one after another: a single worker takes them.
UserSeqNext == UserStep(1, UserIDs)
UserSeqSpec == Init /\ [][UserSeqNext]_vars

ShortcutNext == \E w \in Workers : ShortcutStep(w)

\* Concurrent Shortcut requests and IDP-initiated logins.
ShortcutSpec == Init /\ [][ShortcutNext]_vars

\* A registry lookup by the protocol engine.
LookupStep(w) ==
    \/ GetServiceProvider_RLock(w)
    \/ GetServiceProvider_Read(w)
    \/ Finish(w)

StartupNext ==
    \/ initializeServices_List
    \/ initializeServices_Get
    \/ initializeServices_Lock
    \/ initializeServices_Registry
    \/ New_InitializeHTTP
    \/ \E w \in Workers : LookupStep(w)

\* New over a Store with Services in it, then registry lookups.
StartupSpec == StartupInit /\ [][StartupNext]_vars

\* A step of a /sso request.
SSOStep(w) ==
    \/ HandleSSO_RLock(w)
    \/ HandleSSO_Serve(w)
    \/ HandleSSO_Lookup(w)
    \/ Finish(w)

\* The shortcut "promo" as an earlier PUT /shortcuts/promo stored it.
PromoBody ==
    JsonObject([service_provider |-> "https://sp.example/meta",
                url_suffix_as_relay_state |-> TRUE])
PromoShortcut == [DecodeShortcut(PromoBody.obj) EXCEPT !.Name = "promo"]

\* The Server serving over a Store that holds the shortcut "promo".
LoginInit ==
    /\ store = [k \in {Key("shortcuts", "promo")} |-> PromoShortcut]
    /\ deleteIdempotent \in BOOLEAN
    /\ serviceProviders = <<>>
    /\ idpConfigMu = Unlocked
    /\ workers = [w \in Workers |-> Idle]
    /\ startup = Serving
    /\ passwordHash = [id \in UserIDs |-> None]
    /\ shortcutBody = [id \in ShortcutIDs |-> Some(PromoBody)]

\* A step of a /sso or /login/:shortcut request or of a Service PUT or DELETE.
LoginStep(w) ==
    \/ HandleSSO_RLock(w)
    \/ HandleSSO_Serve(w)
    \/ HandleSSO_Lookup(w)
    \/ HandleIDPInitiated_Get(w)
    \/ HandleIDPInitiated_RLock(w)
    \/ HandleIDPInitiated_Serve(w)
    \/ HandleIDPInitiated_Lookup(w)
    \/ HandlePutService_Decode(w, ServiceIDs)
    \/ HandlePutService_Put(w)
    \/ HandlePutService_Lock(w)
    \/ HandlePutService_Registry(w)
    \/ HandleDeleteService_Get(w, ServiceIDs)
    \/ HandleDeleteService_Delete(w)
    \/ HandleDeleteService_Lock(w)
    \/ HandleDeleteService_Registry(w)
    \/ Finish(w)

LoginNext == \E w \in Workers : LoginStep(w)

\* A step that carries on a request already begun.
Continue(w) == workers[w].pc # "idle" /\ LoginStep(w)

\* Logins interleaved with Service writes.  Store and engine calls return and
\* the scheduler is fair: a request that can take its next step again and
\* again takes it (the lock admits a blocked goroutine once it is released).
LoginSpec == LoginInit /\ [][LoginNext]_vars /\ \A w \in Workers : SF_vars(Continue(w))

\* A step of a request that reads or writes the Registry: a lookup, a Service
\* PUT or a Service DELETE, the Service requests all on the same id.
RegistryStep(w) ==
    \/ GetServiceProvider_RLock(w)
    \/ GetServiceProvider_Read(w)
    \/ HandlePutService_Decode(w, {1})
    \/ HandlePutService_Put(w)
    \/ HandlePutService_Lock(w)
    \/ HandlePutService_Registry(w)
    \/ HandleDeleteService_Get(w, {1})
    \/ HandleDeleteService_Delete(w)
    \/ HandleDeleteService_Lock(w)
    \/ HandleDeleteService_Registry(w)
    \/ Finish(w)

RegistryNext ==
    \/ initializeServices_List
    \/ initializeServices_Get
    \/ initializeServices_Lock
    \/ initializeServices_Registry
    \/ New_InitializeHTTP
    \/ \E w \in Workers : RegistryStep(w)

\* Every reader and writer of the Registry: New over a Store with Services in
\* it, then concurrent lookups and Service writes.
RegistrySpec == StartupInit /\ [][RegistryNext]_vars

\* Service requests and lookups served one after another.  A request that has
\* begun runs to its answer (Store calls return and the lock is free).
ServiceSeqNext == ServiceStep(1, ServiceIDs)
ServiceSeqContinue == workers[1].pc # "idle" /\ ServiceSeqNext
ServiceSeqSpec == Init /\ [][ServiceSeqNext]_vars /\ WF_vars(ServiceSeqContinue)

\* Every handler, with no two requests overlapping; the requests of a kind
\* all address the same id.
SeqNext ==
    \/ ServiceStep(1, {1})
    \/ UserStep(1, {1})
    \/ ShortcutStep(1)
    \/ SSOStep(1)
SeqSpec == Init /\ [][SeqNext]_vars

\* Every handler, requests served concurrently.
Next ==
    \E w \in Workers :
        ServiceStep(w, ServiceIDs) \/ UserStep(w, UserIDs) \/ ShortcutStep(w) \/ SSOStep(w)
Spec == Init /\ [][Next]_vars

(***************************************************************************)
(* Properties.                                                             *)
(***************************************************************************)
\* The worker's request is a Service PUT or DELETE that has not answered yet.
ServiceWriteInFlight(w) ==
    /\ workers[w].kind \in {"PutService", "DeleteService"}
    /\ workers[w].pc # "done"

\* Worker w has answered 204 to a Service PUT and no other request has
\* written Service state since that PUT began.
UndisturbedPut(w) ==
    /\ workers[w].kind = "PutService"
    /\ workers[w].pc = "done"
    /\ workers[w].resp.status = StatusNoContent
    /\ workers[w].quiet

\* C1: once PUT /services/:id with a metadata document has returned 204, and
\* no other Service PUT or DELETE wrote in between, GetServiceProvider of the
\* document's EntityID returns that metadata and GET /services/:id answers
\* 200 with the encoding of that same metadata.
C1_PutThenLookupAndGet ==
    \A w \in Workers :
        UndisturbedPut(w) =>
            LET md == getSPMetadata(workers[w].body[1]).metadata[1]
            IN /\ LookupResult(md.EntityID) = [err |-> ErrNil, rv |-> Some(md)]
               /\ GetServiceResponse(workers[w].id[1], FALSE)
                    = Response(StatusOK, Some(XmlEncode(md)))

\* C1 witness: a PUT has answered 204 undisturbed and, beside it, a GET of the
\* same id has answered with the encoding of the metadata the PUT sent.
C1_Witness ==
    \E w, v \in Workers :
        /\ UndisturbedPut(w)
        /\ workers[v].kind = "GetService"
        /\ workers[v].pc = "done"
        /\ workers[v].id = workers[w].id
        /\ workers[v].resp =
              Response(StatusOK, Some(XmlEncode(workers[w].local[1].Metadata)))

\* The EntityIDs of the Services in the Store.
StoredEntityIDs ==
    {store[k].Metadata.EntityID : k \in {x \in DOMAIN store : x[1] = "services"}}

\* C2: in every state where no Service PUT or DELETE is in flight, the
\* Registry's keys are exactly the EntityIDs of the stored Services and each
\* key maps to the metadata of a stored Service with that EntityID.
C2_RegistryLockstep ==
    (\A w \in Workers : ~ServiceWriteInFlight(w)) =>
        /\ DOMAIN serviceProviders = StoredEntityIDs
        /\ \A e \in DOMAIN serviceProviders :
              \E k \in DOMAIN store :
                  /\ k[1] = "services"
                  /\ store[k].Metadata = serviceProviders[e]

\* The worker that takes this step.
Steps(w) == workers'[w].pc # workers[w].pc

\* C3: the Registry changes only in a step of a Service PUT or DELETE whose
\* own Store Put (resp. Delete) has already returned nil; a Service request
\* that answers 400 or 500 makes that answer in a step that leaves the
\* Registry alone and has not changed the Registry before.
C3_RegistryOnlyAfterStoreSuccess ==
    [][
        /\ serviceProviders' # serviceProviders =>
              \E w \in Workers :
                  /\ Steps(w)
                  /\ workers[w].kind \in {"PutService", "DeleteService"}
                  /\ workers[w].wrote
        /\ \A w \in Workers :
              workers'[w].mutated => workers[w].wrote
        /\ \A w \in Workers :
              (/\ Steps(w)
               /\ workers'[w].kind \in {"PutService", "DeleteService"}
               /\ workers'[w].resp.status \in {StatusBadRequest, StatusInternalServerError})
              => /\ serviceProviders' = serviceProviders
                 /\ ~workers'[w].mutated
    ]_vars

\* C3 witness: a Service PUT whose Store Put failed has answered 500 and its
\* EntityID is not in the Registry, while another key is.
C3_Witness ==
    \E w \in Workers :
        /\ workers[w].kind = "PutService"
        /\ workers[w].pc = "done"
        /\ workers[w].resp.status = StatusInternalServerError
        /\ workers[w].local[1].Metadata.EntityID \notin DOMAIN serviceProviders
        /\ serviceProviders # <<>>

\* Worker w has answered 204 to a User PUT whose body had no password.
PutWithoutPasswordDone(w) ==
    /\ workers[w].kind = "PutUser"
    /\ workers[w].pc = "done"
    /\ workers[w].resp.status = StatusNoContent
    /\ workers[w].local[1].PlaintextPassword = None

\* C4: with requests served one after another, when a PUT /users/:id without
\* a password has answered 204 after an earlier PUT with a password on the
\* same id (no DELETE in between), the stored hashed credential is the hash
\* that earlier PUT stored, whatever other fields the body carried.
C4_PutWithoutPasswordKeepsHash ==
    \A w \in Workers :
        (PutWithoutPasswordDone(w) /\ passwordHash[workers[w].id[1]] # None) =>
            LET key == Key("users", workers[w].id[1])
            IN /\ key \in DOMAIN store
               /\ store[key].HashedPassword = passwordHash[workers[w].id[1]][1]

\* C4 witness: such a PUT has answered, its body carried an email, and the
\* stored record holds that email and the earlier bcrypt hash.
C4_Witness ==
    \E w \in Workers :
        /\ PutWithoutPasswordDone(w)
        /\ passwordHash[workers[w].id[1]] # None
        /\ workers[w].local[1].Email # ""
        /\ store[Key("users", workers[w].id[1])].Email = workers[w].local[1].Email
        /\ store[Key("users", workers[w].id[1])].HashedPassword[1] = "bcrypt"

\* C5: once a PUT with a password has completed and stored hash h, the stored
\* record never has an empty credential nor a bcrypt credential other than h
\* (an older one), in every interleaving of User PUTs on the same id.
C5_NoRollbackByOmission ==
    \A id \in UserIDs :
        (passwordHash[id] # None /\ Key("users", id) \in DOMAIN store) =>
            LET cur == store[Key("users", id)].HashedPassword
            IN /\ cur # NoHash
               /\ cur[1] = "bcrypt" => cur = passwordHash[id][1]

\* C6: the body of a 200 answer to GET /users/:id has neither a password nor
\* a hashed_password member.
C6_GetUserHidesCredentials ==
    \A w \in Workers :
        (/\ workers[w].kind = "GetUser"
         /\ workers[w].pc = "done"
         /\ workers[w].resp.status = StatusOK)
        => /\ "password" \notin DOMAIN workers[w].resp.body[1]
           /\ "hashed_password" \notin DOMAIN workers[w].resp.body[1]

\* C6 witness: a GET has answered 200 for a user whose stored record holds
\* the bcrypt hash of a password.
C6_Witness ==
    \E w \in Workers :
        /\ workers[w].kind = "GetUser"
        /\ workers[w].pc = "done"
        /\ workers[w].resp.status = StatusOK
        /\ Key("users", workers[w].id[1]) \in DOMAIN store
        /\ store[Key("users", workers[w].id[1])].HashedPassword # NoHash
        /\ passwordHash[workers[w].id[1]] # None

\* C7: no value stored under /users/ carries a plaintext password.
C7_NoPlaintextStored ==
    \A k \in DOMAIN store :
        k[1] = "users" => store[k].PlaintextPassword = None

\* C7 witness: a PUT that supplied a password has answered 204 and its record
\* is in the Store.
C7_Witness ==
    \E w \in Workers :
        /\ workers[w].kind = "PutUser"
        /\ workers[w].pc = "done"
        /\ workers[w].resp.status = StatusNoContent
        /\ workers[w].local[1].PlaintextPassword # None
        /\ Key("users", workers[w].id[1]) \in DOMAIN store

\* Worker w has served POST /login/promo/campaign42 past the Store.Get, and
\* the shortcut it read was stored by a PUT /shortcuts/promo with body obj.
PromoLoginAfterPut(w, obj) ==
    /\ workers[w].kind = "IDPInitiated"
    /\ workers[w].pc = "done"
    /\ workers[w].resp.status # StatusInternalServerError
    /\ workers[w].id = Some("promo")
    /\ workers[w].state = Some("campaign42")
    /\ workers[w].body = Some(JsonObject(obj))

PromoHandoff ==
    Some([serviceProviderID |-> "https://sp.example/meta", relayState |-> "campaign42"])

\* C8 as stated: after PUT /shortcuts/promo with body {service_provider:
\* "https://sp.example/meta", uri_suffix_as_relay_state: true}, POST
\* /login/promo/campaign42 hands off with target "https://sp.example/meta"
\* and relay state "campaign42".
C8_ScenarioAsStated ==
    \A w \in Workers :
        PromoLoginAfterPut(w, [service_provider |-> "https://sp.example/meta",
                               uri_suffix_as_relay_state |-> TRUE])
        => workers[w].handoff = PromoHandoff

\* C8 amended: the same scenario with the member the Shortcut struct is
\* tagged with, url_suffix_as_relay_state: true, hands off with target
\* "https://sp.example/meta" and relay state "campaign42".
C8_ScenarioUrlKey ==
    \A w \in Workers :
        PromoLoginAfterPut(w, [service_provider |-> "https://sp.example/meta",
                               url_suffix_as_relay_state |-> TRUE])
        => workers[w].handoff = PromoHandoff

\* C8 witness: the amended scenario has run to its hand-off.
C8_Witness ==
    \E w \in Workers :
        /\ PromoLoginAfterPut(w, [service_provider |-> "https://sp.example/meta",
                                  url_suffix_as_relay_state |-> TRUE])
        /\ workers[w].handoff # None

\* Worker w has handed an IDP-initiated login off to the protocol engine.
HandedOff(w) ==
    /\ workers[w].kind = "IDPInitiated"
    /\ workers[w].pc = "done"
    /\ workers[w].handoff # None

\* C9: for every shortcut read from the Store and every path suffix, the
\* hand-off's target is the shortcut's ServiceProviderID and its relay state
\* is the fixed RelayState when that is set (also when URISuffixAsRelayState
\* is true), else the path suffix when URISuffixAsRelayState is true, else "".
C9_RelayStateOutcomes ==
    \A w \in Workers :
        HandedOff(w) =>
            LET shortcut == workers[w].local[1]
                h == workers[w].handoff[1]
            IN /\ h.serviceProviderID = shortcut.ServiceProviderID
               /\ shortcut.RelayState # None => h.relayState = shortcut.RelayState[1]
               /\ (shortcut.RelayState = None /\ shortcut.URISuffixAsRelayState)
                     => h.relayState = workers[w].state[1]
               /\ (shortcut.RelayState = None /\ ~shortcut.URISuffixAsRelayState)
                     => h.relayState = ""

\* C9 witness: a hand-off for a shortcut with both a fixed relay state and
\* URISuffixAsRelayState, requested with a path suffix.
C9_Witness ==
    \E w \in Workers :
        /\ HandedOff(w)
        /\ workers[w].local[1].RelayState = Some("fixed")
        /\ workers[w].local[1].URISuffixAsRelayState
        /\ workers[w].state = Some("campaign42")
        /\ workers[w].handoff[1].relayState = "fixed"

\* The Store prefix a DELETE handler works under.
DeletePrefix(kind) ==
    CASE kind = "DeleteService" -> "services"
      [] kind = "DeleteUser" -> "users"
      [] kind = "DeleteShortcut" -> "shortcuts"

\* C10: a DELETE /<kind>/:id (services, users, shortcuts) for an id with no
\* entry in the Store answers with an error, never 204, and leaves the Store
\* and the Registry unchanged.
C10_DeleteMissingIsError ==
    [][\A w \in Workers :
          (/\ workers[w].pc = "idle"
           /\ workers'[w].kind \in {"DeleteService", "DeleteUser", "DeleteShortcut"}
           /\ Key(DeletePrefix(workers'[w].kind), workers'[w].id[1]) \notin DOMAIN store)
          => /\ workers'[w].pc = "done"
             /\ workers'[w].resp.status = StatusInternalServerError
             /\ store' = store
             /\ serviceProviders' = serviceProviders]_vars

\* The Store keys of the stored Services.
StoredServiceKeys == {k \in DOMAIN store : k[1] = "services"}

\* No two stored Services carry the same EntityID.
DistinctEntityIDs ==
    \A k1, k2 \in StoredServiceKeys :
        store[k1].Metadata.EntityID = store[k2].Metadata.EntityID => k1 = k2

\* C11: once New has returned the Server over a Store whose Services have
\* pairwise distinct EntityIDs, the Registry has one entry per stored Service,
\* GetServiceProvider of a stored Service's EntityID returns that Service's
\* stored metadata and GetServiceProvider of any other id returns
\* os.ErrNotExist; when New has failed it has returned the Store's error, no
\* request is ever served, and New returns the Server only with every stored
\* Service loaded.
C11_InitializedRegistry ==
    /\ (startup.pc = "serving" /\ DistinctEntityIDs) =>
          /\ Cardinality(DOMAIN serviceProviders) = Cardinality(StoredServiceKeys)
          /\ \A k \in StoredServiceKeys :
                LookupResult(store[k].Metadata.EntityID)
                  = [err |-> ErrNil, rv |-> Some(store[k].Metadata)]
          /\ \A e \in EntityIDs \ StoredEntityIDs :
                LookupResult(e) = [err |-> "os.ErrNotExist", rv |-> None]
    /\ startup.pc = "serving" => StoredEntityIDs \subseteq DOMAIN serviceProviders
    /\ startup.pc = "failed" =>
          /\ startup.err = ErrBackend
          /\ \A w \in Workers : workers[w] = Unrouted

\* C11 witness: New has returned the Server over a Store holding one Service
\* with EntityID "https://sp.example/meta"; one lookup of that EntityID has
\* returned the stored descriptor and a lookup of the other id has failed.
C11_Witness ==
    /\ startup.pc = "serving"
    /\ StoredEntityIDs = {"https://sp.example/meta"}
    /\ \E w, v \in Workers, k \in StoredServiceKeys :
          /\ workers[w].kind = "GetServiceProvider"
          /\ workers[w].pc = "done"
          /\ workers[w].id = Some("https://sp.example/meta")
          /\ workers[w].resp = Response(StatusOK, Some(store[k].Metadata))
          /\ workers[v].kind = "GetServiceProvider"
          /\ workers[v].pc = "done"
          /\ workers[v].id = Some("https://other.example/meta")
          /\ workers[v].resp = Response(StatusInternalServerError, None)

\* C11 witness of the failure: New has returned an error after it had loaded
\* one of two stored Services.
C11_WitnessFailed ==
    /\ startup.pc = "failed"
    /\ Cardinality(StoredServiceKeys) = 2
    /\ Cardinality(DOMAIN serviceProviders) = 1

\* The :id path parameter a Store key was written under.
PathParam(k) == IF k[1] = "shortcuts" THEN k[2] ELSE Param(k[2])

\* C12: every record in the Store, of every kind (Service, User, Shortcut),
\* has its Name equal to the :id path parameter of the PUT that wrote it.
C12_StoredNameIsPathParam ==
    \A k \in DOMAIN store : store[k].Name = PathParam(k)

\* The part of C12 about Users and Shortcuts: their stored Name is the :id of
\* the PUT, whatever name the body carried.
C12_UserAndShortcutNames ==
    \A k \in DOMAIN store :
        k[1] \in {"users", "shortcuts"} => store[k].Name = PathParam(k)

\* Worker w holds no part of the Registry lock and waits for none.
LockReleased(w) ==
    /\ idpConfigMu.readers[w] = 0
    /\ idpConfigMu.writer # w
    /\ idpConfigMu.pending # w

\* Worker w holds the shared lock and waits in a second RLock behind a
\* pending writer, which waits for w to leave.
MutualWait(w) ==
    /\ workers[w].pc = "serve"
    /\ idpConfigMu.readers[w] > 0
    /\ idpConfigMu.pending \in Workers \ {w}

\* C13: under fair scheduling every request that has begun eventually
\* completes with the Registry lock released, in every interleaving of /sso
\* and /login/:shortcut requests with Service PUT and DELETE requests.
C13_EveryRequestCompletes ==
    \A w \in Workers :
        (workers[w].pc # "idle") ~> (workers[w].pc = "done" /\ LockReleased(w))

\* C13, its last sentence: no state is reachable in which a reader and a
\* writer wait on each other.
C13_NoMutualWait ==
    \A w \in Workers : ~MutualWait(w)

\* This step of worker w reads the Registry map.
ReadsRegistry(w) == workers[w].pc \in {"read", "lookup"} /\ Steps(w)

\* C14: in every reachable state a writer inside the Registry lock is alone
\* (no reader inside; the lock has one writer at most); every step that
\* changes the Registry map is taken by the goroutine inside the exclusive
\* lock (Main for initializeServices, the worker for HandlePutService and
\* HandleDeleteService); every step that reads the map is taken by a worker
\* holding the shared lock, with no writer inside.
C14_LockDiscipline ==
    /\ [](idpConfigMu.writer # 0 => NoReaders)
    /\ [][
           /\ serviceProviders' # serviceProviders =>
                 \/ idpConfigMu.writer = Main /\ startup' # startup
                 \/ \E w \in Workers : idpConfigMu.writer = w /\ Steps(w)
           /\ \A w \in Workers :
                 ReadsRegistry(w) =>
                     idpConfigMu.readers[w] > 0 /\ idpConfigMu.writer = 0
       ]_vars

\* C14 witness: a Service PUT is inside the exclusive lock over a Registry
\* that initializeServices filled, while the other worker's Service DELETE is
\* about to call Lock.
C14_Witness ==
    \E w, v \in Workers :
        /\ workers[w].kind = "PutService"
        /\ workers[w].pc = "registry"
        /\ Locked(w)
        /\ serviceProviders # <<>>
        /\ workers[v].kind = "DeleteService"
        /\ workers[v].pc = "lock"

\* Several readers are inside the shared lock together.
C14_ReadersTogether ==
    \A w \in Workers : idpConfigMu.readers[w] > 0

\* A writer is pending behind a reader and is let in when the reader leaves.
C14_WriterWaited ==
    \E w, v \in Workers :
        /\ idpConfigMu.pending = w
        /\ idpConfigMu.readers[v] > 0

\* A Service PUT has answered 204 and left e behind: e is a Registry key, it
\* is not the EntityID the PUT stored, and no stored Service carries it any
\* more (the record that carried it was replaced).
LeftBehind(w, e) ==
    /\ workers[w].kind = "PutService"
    /\ workers[w].pc = "done"
    /\ workers[w].resp.status = StatusNoContent
    /\ e \in DOMAIN serviceProviders
    /\ e # workers[w].local[1].Metadata.EntityID
    /\ e \notin StoredEntityIDs

\* C15 as stated: once a PUT that changed a Service's EntityID from e1 to e2
\* has completed, GetServiceProvider(e1) succeeds from then on (the model has
\* no restart).
C15_StaleKeyForever ==
    \A w \in Workers, e \in EntityIDs :
        [](LeftBehind(w, e) => [](e \in DOMAIN serviceProviders))

\* C15 amended: the registry step of a Service PUT maps the new EntityID to
\* the new metadata and keeps every other key with its mapping, so the old
\* EntityID of a replaced record stays; a key leaves the Registry only in the
\* registry step of a Service DELETE whose deleted record carries that
\* EntityID (which happens to e1 once a later PUT stores e1 again).
C15_StaleKeyUntilDeleted ==
    [][
        /\ \A w \in Workers :
              (Steps(w) /\ workers[w].kind = "PutService" /\ workers[w].pc = "registry") =>
                  LET md == workers[w].local[1].Metadata
                  IN /\ md.EntityID \in DOMAIN serviceProviders'
                     /\ serviceProviders'[md.EntityID] = md
                     /\ \A e \in DOMAIN serviceProviders \ {md.EntityID} :
                           /\ e \in DOMAIN serviceProviders'
                           /\ serviceProviders'[e] = serviceProviders[e]
        /\ \A e \in DOMAIN serviceProviders :
              e \notin DOMAIN serviceProviders' =>
                  \E w \in Workers :
                      /\ Steps(w)
                      /\ workers[w].kind = "DeleteService"
                      /\ workers[w].local[1].Metadata.EntityID = e
    ]_vars

\* C15 witness: a PUT that changed the EntityID of /services/1 has answered
\* 204; the Registry maps the new EntityID to the new metadata and still maps
\* the old EntityID to metadata carrying the old EntityID.
C15_Witness ==
    \E w \in Workers, e \in EntityIDs :
        /\ LeftBehind(w, e)
        /\ serviceProviders[e].EntityID = e
        /\ LookupResult(workers[w].local[1].Metadata.EntityID)
              = [err |-> ErrNil, rv |-> Some(workers[w].local[1].Metadata)]
        /\ store[Key("services", workers[w].id[1])].Metadata = workers[w].local[1].Metadata

\* Worker w has answered 204 to a Service DELETE and no Service PUT has
\* written Service state since that DELETE began.
UndisturbedDelete(w) ==
    /\ workers[w].kind = "DeleteService"
    /\ workers[w].pc = "done"
    /\ workers[w].resp.status = StatusNoContent
    /\ workers[w].quiet

\* C16: once DELETE /services/:id has answered 204 with no Service PUT
\* writing meanwhile, the Store has no entry at /services/:id and
\* GetServiceProvider of the deleted record's EntityID returns
\* os.ErrNotExist; the DELETE's registry step leaves every key other than
\* that EntityID with its mapping.
C16_DeleteRemovesStoreAndRegistry ==
    /\ [](\A w \in Workers :
            UndisturbedDelete(w) =>
                /\ Key("services", workers[w].id[1]) \notin DOMAIN store
                /\ LookupResult(workers[w].local[1].Metadata.EntityID)
                     = [err |-> "os.ErrNotExist", rv |-> None])
    /\ [][\A w \in Workers :
             (Steps(w) /\ workers[w].kind = "DeleteService" /\ workers[w].pc = "registry") =>
                 \A e \in DOMAIN serviceProviders \ {workers[w].local[1].Metadata.EntityID} :
                     /\ e \in DOMAIN serviceProviders'
                     /\ serviceProviders'[e] = serviceProviders[e]]_vars

\* C16 witness: a DELETE has answered 204 undisturbed for a record whose
\* EntityID had been in the Registry, and the Registry still holds another
\* key.
C16_Witness ==
    \E w \in Workers :
        /\ UndisturbedDelete(w)
        /\ workers[w].mutated
        /\ serviceProviders # <<>>

\* C17: with requests served one after another, a PUT /users/:id whose body
\* has no password, for an id with no entry in the Store, stores a record
\* with an empty hashed credential, whatever the body carried, a
\* hashed_password member included.
C17_NoCredentialWithoutPassword ==
    [][\A w \in Workers :
          (/\ Steps(w)
           /\ workers[w].kind = "PutUser"
           /\ workers[w].pc = "put"
           /\ workers[w].local[1].PlaintextPassword = None
           /\ Key("users", workers[w].id[1]) \notin DOMAIN store
           /\ workers'[w].resp.status = StatusNoContent)
          => store'[Key("users", workers[w].id[1])].HashedPassword = NoHash]_vars

\* The part of C17 about bodies without a hashed_password member: the record
\* such a PUT stores for an id with no entry has an empty hashed credential.
C17_NoCredentialUnlessForged ==
    [][\A w \in Workers :
          (/\ Steps(w)
           /\ workers[w].kind = "PutUser"
           /\ workers[w].pc = "put"
           /\ workers[w].local[1].PlaintextPassword = None
           /\ Key("users", workers[w].id[1]) \notin DOMAIN store
           /\ workers'[w].resp.status = StatusNoContent)
          => store'[Key("users", workers[w].id[1])].HashedPassword \in {NoHash, ForgedHash}]_vars

\* The Store prefix a GET handler reads under.
GetPrefix(kind) ==
    CASE kind = "GetService" -> "services"
      [] kind = "GetUser" -> "users"
      [] kind = "GetShortcut" -> "shortcuts"

\* This step of worker w serves a GET /<kind>/:id from start to answer.
ServesGet(w) ==
    /\ workers[w].pc = "idle"
    /\ workers'[w].kind \in {"GetService", "GetUser", "GetShortcut"}

\* C18: for every resource kind, a GET /<kind>/:id on an id with no entry in
\* the Store is answered with the internal-error response, and that is the
\* one response a GET gives whenever it does not answer 200: a GET whose
\* Store call fails for another reason is answered the same, status and body.
C18_GetMissingIsInternalError ==
    [][\A w \in Workers :
          ServesGet(w) =>
              /\ workers'[w].pc = "done"
              /\ Key(GetPrefix(workers'[w].kind), workers'[w].id[1]) \notin DOMAIN store
                    => workers'[w].resp = HttpError(StatusInternalServerError)
              /\ workers'[w].resp.status # StatusOK
                    => workers'[w].resp = HttpError(StatusInternalServerError)]_vars

\* A GET of a stored shortcut has answered 500 (the Store call failed), the
\* same answer a GET of a missing one gets.
C18_WitnessStoreFailure ==
    \E w \in Workers :
        /\ workers[w].kind = "GetShortcut"
        /\ workers[w].pc = "done"
        /\ workers[w].resp = HttpError(StatusInternalServerError)
        /\ Key("shortcuts", workers[w].id[1]) \in DOMAIN store

\* C18 witness: a GET of a user with no entry in the Store has answered 500.
C18_Witness ==
    \E w \in Workers :
        /\ workers[w].kind = "GetUser"
        /\ workers[w].pc = "done"
        /\ workers[w].resp = HttpError(StatusInternalServerError)
        /\ Key("users", workers[w].id[1]) \notin DOMAIN store

\* This step of worker w is the Store.Get of an IDP-initiated login.
ServesLoginGet(w) ==
    /\ workers[w].pc = "idle"
    /\ workers'[w].kind = "IDPInitiated"

\* C19: when the Store.Get of the named shortcut fails (no entry, or any
\* other error), HandleIDPInitiated answers with the internal-error response
\* in that same step, which ends the request: the Registry lock is not
\* touched, nothing is handed to the protocol engine and the Store is not
\* called again; a login that answered the internal error holds no lock and
\* has made no hand-off.
C19_LoginGetFailureAborts ==
    /\ [][\A w \in Workers :
             ServesLoginGet(w) =>
                 /\ Key("shortcuts", workers'[w].id[1]) \notin DOMAIN store
                       => workers'[w].resp = HttpError(StatusInternalServerError)
                 /\ workers'[w].resp.status = StatusInternalServerError
                       => /\ workers'[w].pc = "done"
                          /\ workers'[w].handoff = None
                          /\ idpConfigMu' = idpConfigMu
                          /\ store' = store
                 /\ workers'[w].resp.status # StatusInternalServerError
                       => /\ workers'[w].pc = "rlock"
                          /\ workers'[w].local
                               = Some(store[Key("shortcuts", workers'[w].id[1])])]_vars
    /\ [](\A w \in Workers :
            (/\ workers[w].kind = "IDPInitiated"
             /\ workers[w].resp.status = StatusInternalServerError)
            => /\ workers[w].pc = "done"
               /\ workers[w].handoff = None
               /\ workers[w].found = None
               /\ idpConfigMu.readers[w] = 0)

\* C19 witness: a login for a shortcut with no entry in the Store has
\* answered 500, with no hand-off and the lock free.
C19_Witness ==
    \E w \in Workers :
        /\ workers[w].kind = "IDPInitiated"
        /\ workers[w].pc = "done"
        /\ workers[w].resp = HttpError(StatusInternalServerError)
        /\ Key("shortcuts", workers[w].id[1]) \notin DOMAIN store
        /\ workers[w].handoff = None
        /\ idpConfigMu = Unlocked

\* A login for a stored shortcut has answered 500 (the Store call failed)
\* beside a login of the same shortcut that was handed off.
C19_WitnessStoreFailure ==
    \E w, v \in Workers :
        /\ workers[w].kind = "IDPInitiated"
        /\ workers[w].pc = "done"
        /\ workers[w].resp = HttpError(StatusInternalServerError)
        /\ workers[w].body # None
        /\ HandedOff(v)

\* The requests that may change the Registry, and those that only read.
RegistryWriters == {"PutService", "DeleteService"}
Readers ==
    {"ListServices", "GetService", "ListUsers", "GetUser", "ListShortcuts",
     "GetShortcut", "GetServiceProvider", "IDPInitiated", "SSO"}

\* The kind of the request whose step worker w takes.
StepKind(w) == IF workers[w].pc = "idle" THEN workers'[w].kind ELSE workers[w].kind

C20_WitnessLogin ==
    \E w \in Workers :
        /\ HandedOff(w)
        /\ workers[w].found # None

====
